---------------------------- MODULE Spec2Model ----------------------------
(***************************************************************************)
(* A model of flask_app.py: the text sanitizer, the video-ID extractor,    *)
(* the transcript segmenter, the segment summarizer and the POST handler   *)
(* of /YoutubeSummarizer.                                                  *)
(*                                                                         *)
(* A string is a sequence of characters; in URLs a word that the code      *)
(* only ever compares whole ("embed", an ID) is one element.  Times are    *)
(* seconds.                                                                *)
(*                                                                         *)
(* Three specifications share the variables:                               *)
(*   SegSpec  get_transcript's scan over a fetched cue list, one cue per   *)
(*            step, then the final flush;                                  *)
(*   UrlSpec  extract_video_id applied to one URL;                         *)
(*   Spec     one POST request, one step per external call.                *)
(***************************************************************************)
EXTENDS Integers, Sequences, FiniteSets, TLC

VARIABLES
    pc,              \* position of the running code
    transcript,      \* get_transcript: the fetched cue list
    summary_scope,   \* get_transcript: minutes per segment
    next,            \* get_transcript: index of the next cue of the for loop
    segments,        \* get_transcript / summarizer_result: the segment list
    segment_text,    \* get_transcript: the accumulator
    break_point,     \* get_transcript: the running threshold, in minutes
    cueSeg,          \* history: for each scanned cue, the index (0-based) of
                     \* the segment whose accumulator received its text
    youtube_url,     \* extract_video_id / summarizer_result: the URL (form
                     \* field Key), as urlparse splits it
    extract_result,  \* extract_video_id: what the call returned or raised
    minChunk,        \* summarizer_result: form field minChunk, a string
    video_id,        \* summarizer_result: the extracted ID
    min_chunk,       \* summarizer_result: int(minChunk)
    segmented_summaries, \* summarize_video_segments: the list being built
    summaries,       \* summarizer_result: the list summarize_video_segments
                     \* returned, once it has
    flashed,         \* the messages flashed to the user
    response,        \* what the handler returned to the browser
    calls            \* history: the external calls issued, in order

segVars == <<transcript, summary_scope, next, segment_text, break_point,
             cueSeg>>

urlVars == <<youtube_url, extract_result>>

reqVars == <<minChunk, video_id, min_chunk, segmented_summaries, summaries,
             flashed, response, calls>>

vars == <<pc, segments, segVars, urlVars, reqVars>>

---------------------------------------------------------------------------
(* Bounds *)

MaxCues == 3

MaxTick == 4

MaxScope == 2

MaxPathLen == 4

MaxParams == 2

---------------------------------------------------------------------------
(* Strings *)

\* Characters matched by \s.
WhitespaceChars == {" "}

\* Characters matched by neither \w nor \s.
PunctChars == {"!", "'", ".", "/", "=", "&", "?", "+", "-"}

\* re.sub(r'[^\w\s]', '', text): every character that is neither a word
\* character nor whitespace is removed, the rest keep their order.
sanitize_text(text) ==
    SelectSeq(text, LAMBDA c : c \notin PunctChars)

RECURSIVE lstrip(_)
lstrip(s) ==
    IF s # <<>> /\ Head(s) \in WhitespaceChars THEN lstrip(Tail(s)) ELSE s

RECURSIVE rstrip(_)
rstrip(s) ==
    IF s # <<>> /\ s[Len(s)] \in WhitespaceChars
    THEN rstrip(SubSeq(s, 1, Len(s) - 1))
    ELSE s

\* str.strip()
strip(s) == rstrip(lstrip(s))

---------------------------------------------------------------------------
(* Transcript segmenter: get_transcript, after the fetch *)

SecondsPerMinute == 60

\* blurb["start"] / 60.0 >= break_point, on exact seconds
CrossesBreakPointStrict(start, bp) == start > SecondsPerMinute * bp
CrossesBreakPoint(start, bp) == start >= SecondsPerMinute * bp

\* segment_text += " " + sanitized_text
AppendBlurbOverwrite(text, sanitized) == sanitized
AppendBlurb(text, sanitized) == text \o <<" ">> \o sanitized

\* break_point += summary_scope
AdvanceBreakPointStuck(bp, scope) == bp
AdvanceBreakPoint(bp, scope) == bp + scope

\* The body of `for blurb in transcript`, on the loop's three locals.
LoopBody(st, blurb, scope) ==
    LET sanitized == sanitize_text(blurb.text) IN
    IF CrossesBreakPoint(blurb.start, st.break_point)
    THEN [segments     |-> Append(st.segments, strip(st.segment_text)),
          segment_text |-> sanitized,
          break_point  |-> AdvanceBreakPoint(st.break_point, scope)]
    ELSE [segments     |-> st.segments,
          segment_text |-> AppendBlurb(st.segment_text, sanitized),
          break_point  |-> st.break_point]

\* if segment_text: segments.append(segment_text.strip())
FlushSegments(segs, text) ==
    IF text # <<>> THEN Append(segs, strip(text)) ELSE segs

\* The locals before the loop.
LoopStart(scope) ==
    [segments |-> <<>>, segment_text |-> <<>>, break_point |-> scope]

\* The cue texts the caption source supplies: letters, punctuation, leading
\* whitespace, and a text the sanitizer empties.
CueTexts == { <<"a">>, <<"b", "!">>, <<" ", "c">>, <<"!">> }

\* Cue start times, every 30 s.
StartTimes == { 30 * t : t \in 0..MaxTick }

\* Cue durations.
Durations == { 30 }

Cues == [text : CueTexts, start : StartTimes, duration : Durations]

CueLists == UNION { [1..n -> Cues] : n \in 0..MaxCues }

Scopes == 1..MaxScope

\* get_transcript is not running.
SegIdle ==
    /\ transcript = <<>>
    /\ summary_scope = 0
    /\ next = 0
    /\ segment_text = <<>>
    /\ break_point = 0
    /\ cueSeg = <<>>

NoUrl == [netloc |-> "", path |-> <<>>, query |-> <<>>]

NoResult == [raised |-> "pending", value |-> <<>>]

\* extract_video_id is not running.
UrlIdle ==
    /\ youtube_url = NoUrl
    /\ extract_result = NoResult

NotReturned == [returned |-> FALSE, value |-> <<>>]

NoResponse == [kind |-> "none", target |-> "", summaries |-> <<>>]

\* No request is being handled.
ReqIdle ==
    /\ minChunk = <<>>
    /\ video_id = <<>>
    /\ min_chunk = 0
    /\ segmented_summaries = <<>>
    /\ summaries = NotReturned
    /\ flashed = <<>>
    /\ response = NoResponse
    /\ calls = <<>>

\* get_transcript is past the fetch: the locals are set, the loop begins.
SegInit ==
    /\ pc = "scan"
    /\ transcript \in CueLists
    /\ summary_scope \in Scopes
    /\ next = 1
    /\ segments = LoopStart(summary_scope).segments
    /\ segment_text = LoopStart(summary_scope).segment_text
    /\ break_point = LoopStart(summary_scope).break_point
    /\ cueSeg = <<>>
    /\ UrlIdle
    /\ ReqIdle

\* One iteration of the for loop.
ProcessBlurb ==
    /\ pc = "scan"
    /\ next <= Len(transcript)
    /\ LET st == LoopBody([segments |-> segments,
                           segment_text |-> segment_text,
                           break_point |-> break_point],
                          transcript[next], summary_scope)
       IN /\ segments' = st.segments
          /\ segment_text' = st.segment_text
          /\ break_point' = st.break_point
          /\ cueSeg' = Append(cueSeg, Len(st.segments))
    /\ next' = next + 1
    /\ UNCHANGED <<pc, transcript, summary_scope, urlVars, reqVars>>

\* The loop is over: flush the accumulator and return.
Flush ==
    /\ pc = "scan"
    /\ next > Len(transcript)
    /\ segments' = FlushSegments(segments, segment_text)
    /\ pc' = "segmented"
    /\ UNCHANGED <<segVars, urlVars, reqVars>>

SegNext == ProcessBlurb \/ Flush

SegSpec == SegInit /\ [][SegNext]_vars

---------------------------------------------------------------------------
(* Video-ID extractor: extract_video_id *)

Range(f) == { f[i] : i \in DOMAIN f }

\* Index of the first occurrence of c in s, 0 when there is none.
Find(s, c) ==
    IF \E i \in 1..Len(s) : s[i] = c
    THEN CHOOSE i \in 1..Len(s) :
            s[i] = c /\ \A k \in 1..(i - 1) : s[k] # c
    ELSE 0

\* str.split(sep): "" splits into [""], "/a" into ["", "a"].
RECURSIVE Split(_, _)
Split(s, sep) ==
    IF Find(s, sep) = 0 THEN <<s>>
    ELSE <<SubSeq(s, 1, Find(s, sep) - 1)>>
             \o Split(SubSeq(s, Find(s, sep) + 1, Len(s)), sep)

\* str.split('=', 1)
SplitOnce(s, sep) ==
    IF Find(s, sep) = 0 THEN <<s>>
    ELSE <<SubSeq(s, 1, Find(s, sep) - 1),
           SubSeq(s, Find(s, sep) + 1, Len(s))>>

\* str.replace('+', ' ')
PlusToSpace(s) == [i \in 1..Len(s) |-> IF s[i] = "+" THEN " " ELSE s[i]]

\* urllib.parse.parse_qsl with its defaults (keep_blank_values=False,
\* strict_parsing=False): the fields between '&', split at their first '=';
\* a field with no '=' or with a blank value is skipped.  (No field of the
\* model holds a %XX escape.)
RECURSIVE parse_qsl_fields(_)
parse_qsl_fields(fields) ==
    IF fields = <<>> THEN <<>>
    ELSE LET nv == SplitOnce(Head(fields), "=") IN
         (IF Len(nv) = 2 /\ nv[2] # <<>>
          THEN << [name |-> PlusToSpace(nv[1]), value |-> PlusToSpace(nv[2])] >>
          ELSE <<>>)
             \o parse_qsl_fields(Tail(fields))

parse_qsl(query) == parse_qsl_fields(Split(query, "&"))

\* parse_qs(query)[name], <<>> when name is not a key of the dictionary.
RECURSIVE ValuesOf(_, _)
ValuesOf(pairs, name) ==
    IF pairs = <<>> THEN <<>>
    ELSE (IF Head(pairs).name = name THEN <<Head(pairs).value>> ELSE <<>>)
             \o ValuesOf(Tail(pairs), name)

parse_qs(query, name) == ValuesOf(parse_qsl(query), name)

Returned(v) == [raised |-> "none", value |-> v]

Raised(exc) == [raised |-> exc, value |-> <<>>]

\* The short-link rule tried before the `v` parameter.
extract_video_id_ShortLinkFirst(url) ==
    LET parts == Split(url.path, "/") IN
    IF url.netloc = "youtu.be" /\ url.path # <<>>
    THEN Returned(Tail(url.path))
    ELSE IF parse_qs(url.query, <<"v">>) # <<>>
    THEN Returned(parse_qs(url.query, <<"v">>)[1])
    ELSE IF <<"embed">> \in Range(parts)
    THEN Returned(parts[Len(parts)])
    ELSE IF <<"shorts">> \in Range(parts)
    THEN Returned(parts[Len(parts)])
    ELSE Raised("ValueError")

extract_video_id(url) ==
    LET parts == Split(url.path, "/") IN
    IF parse_qs(url.query, <<"v">>) # <<>>
    THEN Returned(parse_qs(url.query, <<"v">>)[1])
    ELSE IF url.netloc = "youtu.be" /\ url.path # <<>>
    THEN Returned(Tail(url.path))
    ELSE IF <<"embed">> \in Range(parts)
    THEN Returned(parts[Len(parts)])
    ELSE IF <<"shorts">> \in Range(parts)
    THEN Returned(parts[Len(parts)])
    ELSE Raised("ValueError")

\* The strings of at most n elements over the alphabet.
StringsUpTo(alphabet, n) == UNION { [1..k -> alphabet] : k \in 0..n }

RECURSIVE Join(_, _)
Join(strs, sep) ==
    IF strs = <<>> THEN <<>>
    ELSE IF Len(strs) = 1 THEN strs[1]
    ELSE strs[1] \o <<sep>> \o Join(Tail(strs), sep)

\* Hosts: the short-link host, another host, and none (a relative URL).
Netlocs == {"youtu.be", "www.youtube.com", ""}

PathAtoms == {"/", "embed", "shorts", "abc"}

Paths == StringsUpTo(PathAtoms, MaxPathLen)

\* Query fields: empty, without '=', blank, valued, with '+', with '=' in the
\* value, and under other names.
QueryFields ==
    { <<>>, <<"v">>, <<"v", "=">>, <<"v", "=", "abc">>,
      <<"v", "=", "x", "+", "y">>, <<"v", "=", "abc", "=", "x">>,
      <<"t", "=", "abc">>, <<"v", "v", "=", "abc">> }

Queries == { Join(fs, "&") : fs \in StringsUpTo(QueryFields, MaxParams) }

\* urlparse results: with a host, the path is empty or begins with '/'.
Urls ==
    { u \in [netloc : Netlocs, path : Paths, query : Queries] :
        u.netloc # "" => (u.path = <<>> \/ u.path[1] = "/") }

UrlInit ==
    /\ pc = "extract"
    /\ youtube_url \in Urls
    /\ extract_result = NoResult
    /\ segments = <<>>
    /\ SegIdle
    /\ ReqIdle

ExtractVideoId ==
    /\ pc = "extract"
    /\ extract_result' = extract_video_id(youtube_url)
    /\ pc' = "extracted"
    /\ UNCHANGED <<youtube_url, segments, segVars, reqVars>>

UrlNext == ExtractVideoId

UrlSpec == UrlInit /\ [][UrlNext]_vars

---------------------------------------------------------------------------
(* Segment summarizer and the POST handler: summarize_video_segments,     *)
(* create_youtube_link, summarizer_result                                  *)

DigitValue(c) ==
    CASE c = "0" -> 0 [] c = "1" -> 1 [] c = "2" -> 2 [] c = "3" -> 3
      [] c = "4" -> 4 [] c = "5" -> 5 [] c = "6" -> 6 [] c = "7" -> 7
      [] c = "8" -> 8 [] c = "9" -> 9

Digits == {"0", "1", "2", "3", "4", "5", "6", "7", "8", "9"}

RECURSIVE DecimalValue(_)
DecimalValue(ds) ==
    IF ds = <<>> THEN 0
    ELSE 10 * DecimalValue(SubSeq(ds, 1, Len(ds) - 1)) + DigitValue(ds[Len(ds)])

\* int(s): surrounding whitespace, an optional sign, then decimal digits;
\* anything else is a ValueError.
ParseInt(s) ==
    LET t      == strip(s)
        signed == t # <<>> /\ t[1] \in {"-", "+"}
        ds     == IF signed THEN Tail(t) ELSE t
    IN  IF ds # <<>> /\ \A i \in 1..Len(ds) : ds[i] \in Digits
        THEN [raised |-> "none",
              value  |-> IF signed /\ t[1] = "-" THEN 0 - DecimalValue(ds)
                         ELSE DecimalValue(ds)]
        ELSE [raised |-> "ValueError", value |-> 0]

\* if not video_id or min_chunk <= 0
InvalidRequestKeyOnly(id, chunk) == id = <<>>
InvalidRequest(id, chunk) == id = <<>> \/ chunk <= 0

BadRequestMessage == "400 Bad Request: Invalid video key or summary scope."

GenericMessage ==
    "An unexpected error occurred while processing your request. Please try again later."

\* The two except clauses of summarizer_result: what is flashed.
FlashFor(exc) ==
    IF exc = "BadRequest" THEN BadRequestMessage ELSE GenericMessage

RedirectToForm ==
    [kind |-> "redirect", target |-> "summarizer_form", summaries |-> <<>>]

RenderResult(entries) ==
    [kind |-> "render", target |-> "summarizer_result.html",
     summaries |-> entries]

\* Lines 313-318: the exception raised before the fetch, "none" if none.
FormFault(url, chunk) ==
    IF extract_video_id(url).raised # "none" THEN "ValueError"
    ELSE IF ParseInt(chunk).raised # "none" THEN "ValueError"
    ELSE IF InvalidRequest(extract_video_id(url).value, ParseInt(chunk).value)
    THEN "BadRequest"
    ELSE "none"

\* The for loop of get_transcript, run to its end.
RECURSIVE Scan(_, _, _)
Scan(cues, st, scope) ==
    IF cues = <<>> THEN st
    ELSE Scan(Tail(cues), LoopBody(st, Head(cues), scope), scope)

DisabledSentence(id) ==
    <<"Transcripts are disabled for the video with ID ", "'">>
        \o id \o <<"'", ".">>

NotFoundSentence(id) ==
    <<"No transcript found for the video with ID ", "'">>
        \o id \o <<"'", ".">>

\* A caption source whose "transcripts disabled" answer is not recovered.
get_transcript_DisabledRaises(id, scope, answer) ==
    CASE answer.kind = "TranscriptsDisabled" -> Raised("Exception")
      [] answer.kind = "NoTranscriptFound" ->
            Returned(<<NotFoundSentence(id)>>)
      [] answer.kind = "Error" -> Raised("Exception")
      [] answer.kind = "cues" ->
            LET st == Scan(answer.cues, LoopStart(scope), scope)
            IN  Returned(FlushSegments(st.segments, st.segment_text))

\* get_transcript, given the caption source's answer to the fetch.
get_transcript(id, scope, answer) ==
    CASE answer.kind = "TranscriptsDisabled" ->
            Returned(<<DisabledSentence(id)>>)
      [] answer.kind = "NoTranscriptFound" ->
            Returned(<<NotFoundSentence(id)>>)
      [] answer.kind = "Error" -> Raised("Exception")
      [] answer.kind = "cues" ->
            LET st == Scan(answer.cues, LoopStart(scope), scope)
            IN  Returned(FlushSegments(st.segments, st.segment_text))

\* i * summary_scope
TimestampOneBased(i, scope) == (i + 1) * scope
Timestamp(i, scope) == i * scope

\* https://youtu.be/{video_id}?t={timestamp_in_minutes * 60}
create_youtube_link(id, timestamp_in_minutes) ==
    [host |-> "youtu.be", path |-> id,
     t |-> timestamp_in_minutes * SecondsPerMinute]

NoLink == [host |-> "", path |-> <<>>, t |-> 0]

\* The entry appended for segment i: the anchor (or the plain label), then
\* the sanitized completion; suffix is what the handler appends later.
DisplayEntry(id, i, scope, content, html_link) ==
    [href   |-> IF html_link
                THEN create_youtube_link(id, Timestamp(i, scope))
                ELSE NoLink,
     label  |-> Timestamp(i, scope),
     text   |-> sanitize_text(content),
     suffix |-> ""]

\* [x + "<br>" for x in summaries]
WithLineBreaks(entries) ==
    [k \in 1..Len(entries) |-> [entries[k] EXCEPT !.suffix = "<br>"]]

\* A summarizer that swallows the fault and returns what it has.
SummarizerOnFaultReturnsPartial(partial) == Returned(partial)
\* except ...: raise Exception(...)
SummarizerOnFault(partial) == Raised("Exception")

\* What the caption source can answer.
CaptionAnswers ==
    { [kind |-> "cues", cues |-> c] : c \in CueLists }
        \cup { [kind |-> k, cues |-> <<>>] :
                 k \in {"TranscriptsDisabled", "NoTranscriptFound", "Error"} }

\* What the completion service can answer.
Completions == { <<"s", ".">>, <<"t">> }

U(host, path, query) == [netloc |-> host, path |-> path, query |-> query]

\* Submitted URLs: a watch link, a short link, a short link without an ID,
\* and two links no rule matches.
FormUrls ==
    { U("www.youtube.com", <<"/", "watch">>, <<"v", "=", "abc">>),
      U("youtu.be", <<"/", "xyz">>, <<>>),
      U("youtu.be", <<"/">>, <<>>),
      U("www.youtube.com", <<"/", "watch">>, <<>>),
      U("www.youtube.com", <<"/", "watch">>, <<"v", "=">>) }

FormChunks == { <<"2">>, <<"1">>, <<"0">>, <<"-", "1">>, <<"x">> }

\* A POST to /YoutubeSummarizer has arrived.
Init ==
    /\ pc = "request"
    /\ youtube_url \in FormUrls
    /\ minChunk \in FormChunks
    /\ extract_result = NoResult
    /\ video_id = <<>>
    /\ min_chunk = 0
    /\ segments = <<>>
    /\ segmented_summaries = <<>>
    /\ summaries = NotReturned
    /\ flashed = <<>>
    /\ response = NoResponse
    /\ calls = <<>>
    /\ SegIdle

\* The except clauses: flash, then redirect to the form.
Fail(exc) ==
    /\ flashed' = Append(flashed, FlashFor(exc))
    /\ response' = RedirectToForm
    /\ pc' = "done"

\* Lines 313-318, no fault: on to the fetch.
AcceptForm ==
    /\ pc = "request"
    /\ FormFault(youtube_url, minChunk) = "none"
    /\ extract_result' = extract_video_id(youtube_url)
    /\ video_id' = extract_video_id(youtube_url).value
    /\ min_chunk' = ParseInt(minChunk).value
    /\ pc' = "fetch"
    /\ UNCHANGED <<youtube_url, minChunk, segments, segmented_summaries,
                   summaries, flashed, response, calls, segVars>>

\* Lines 313-318, a fault: ValueError from extract_video_id or int(), or
\* the handler's own BadRequest.
RejectForm ==
    /\ pc = "request"
    /\ FormFault(youtube_url, minChunk) # "none"
    /\ extract_result' = extract_video_id(youtube_url)
    /\ Fail(FormFault(youtube_url, minChunk))
    /\ UNCHANGED <<youtube_url, minChunk, video_id, min_chunk, segments,
                   segmented_summaries, summaries, calls, segVars>>

\* Line 321: get_transcript fetches and, on cues, segments them.
FetchTranscript ==
    /\ pc = "fetch"
    /\ \E answer \in CaptionAnswers :
         LET r == get_transcript(video_id, min_chunk, answer) IN
         /\ calls' = Append(calls, [service |-> "captions",
                                   request |-> video_id,
                                   index   |-> 0,
                                   answer  |-> answer.kind,
                                   content |-> <<>>])
         /\ IF r.raised = "none"
            THEN /\ segments' = r.value
                 /\ pc' = "summarize"
                 /\ UNCHANGED <<flashed, response>>
            ELSE /\ Fail(r.raised)
                 /\ UNCHANGED segments
    /\ UNCHANGED <<youtube_url, extract_result, minChunk, video_id,
                   min_chunk, segmented_summaries, summaries, segVars>>

CompletionCall(i, answer, content) ==
    [service |-> "completion",
     request |-> sanitize_text(segments[i + 1]),
     index   |-> i,
     answer  |-> answer,
     content |-> content]

\* Lines 174-195: the completion call for the next segment returns.
CompletionReturns ==
    /\ pc = "summarize"
    /\ Len(segmented_summaries) < Len(segments)
    /\ \E content \in Completions :
         LET i == Len(segmented_summaries) IN
         /\ calls' = Append(calls, CompletionCall(i, "ok", content))
         /\ segmented_summaries' =
                Append(segmented_summaries,
                       DisplayEntry(video_id, i, min_chunk, content, TRUE))
    /\ UNCHANGED <<pc, youtube_url, extract_result, minChunk, video_id,
                   min_chunk, segments, summaries, flashed, response,
                   segVars>>

\* Lines 322-331 after summarize_video_segments is over with outcome r.
AfterSummarize(r) ==
    IF r.raised = "none"
    THEN /\ summaries' = [returned |-> TRUE, value |-> WithLineBreaks(r.value)]
         /\ response' = RenderResult(WithLineBreaks(r.value))
         /\ pc' = "done"
         /\ UNCHANGED flashed
    ELSE /\ Fail(r.raised)
         /\ UNCHANGED summaries

\* Lines 197-200: the completion call for the next segment faults.
CompletionFaults ==
    /\ pc = "summarize"
    /\ Len(segmented_summaries) < Len(segments)
    /\ calls' = Append(calls, CompletionCall(Len(segmented_summaries),
                                            "OpenAIError", <<>>))
    /\ AfterSummarize(SummarizerOnFault(segmented_summaries))
    /\ UNCHANGED <<youtube_url, extract_result, minChunk, video_id,
                   min_chunk, segments, segmented_summaries, segVars>>

\* Lines 202, 323-331: every segment is summarized; return and render.
ReturnAndRender ==
    /\ pc = "summarize"
    /\ Len(segmented_summaries) = Len(segments)
    /\ AfterSummarize(Returned(segmented_summaries))
    /\ UNCHANGED <<youtube_url, extract_result, minChunk, video_id,
                   min_chunk, segments, segmented_summaries, calls, segVars>>

Next ==
    \/ AcceptForm
    \/ RejectForm
    \/ FetchTranscript
    \/ CompletionReturns
    \/ CompletionFaults
    \/ ReturnAndRender

Spec == Init /\ [][Next]_vars

---------------------------------------------------------------------------
(* Properties of the extractor (UrlSpec) *)

\* The query's fields that name the parameter `v`.
VFields(query) ==
    SelectSeq(Split(query, "&"),
              LAMBDA f : Len(f) >= 2 /\ f[1] = "v" /\ f[2] = "=")

NonBlankVFields(query) ==
    SelectSeq(VFields(query), LAMBDA f : Len(f) > 2)

\* The value of a field v=<value>.
FieldValue(f) == PlusToSpace(SubSeq(f, 3, Len(f)))

\* The path has a segment equal to word.
HasSegment(path, word) ==
    \E i \in 1..Len(path) :
        /\ path[i] = word
        /\ i = 1 \/ path[i - 1] = "/"
        /\ i = Len(path) \/ path[i + 1] = "/"

\* What follows the path's last '/'.
FinalSegment(path) ==
    LET slashes == { i \in 1..Len(path) : path[i] = "/" } IN
    IF slashes = {} THEN path
    ELSE SubSeq(path,
                (CHOOSE i \in slashes : \A k \in slashes : k <= i) + 1,
                Len(path))

\* Rules (2) to (4), and the failure when no rule applies.
LaterRules(url) ==
    IF url.netloc = "youtu.be" /\ url.path # <<>>
    THEN Returned(SubSeq(url.path, 2, Len(url.path)))
    ELSE IF HasSegment(url.path, "embed") \/ HasSegment(url.path, "shorts")
    THEN Returned(FinalSegment(url.path))
    ELSE Raised("ValueError")

\* C8, as stated: rule (1) applies when the query has a `v` parameter, and
\* gives its first value; else rules (2), (3), (4) in order; else the
\* invalid-URL error.
C8_FirstApplicableRule ==
    pc = "extracted" =>
        extract_result =
            IF VFields(youtube_url.query) # <<>>
            THEN Returned(FieldValue(VFields(youtube_url.query)[1]))
            ELSE LaterRules(youtube_url)

\* C8, amended: rule (1) applies when the `v` parameter has a non-blank
\* value, and gives the first non-blank one; else rules (2), (3), (4) in
\* order; the invalid-URL error exactly when none applies.
C8_FirstApplicableRuleNonBlank ==
    pc = "extracted" =>
        extract_result =
            IF NonBlankVFields(youtube_url.query) # <<>>
            THEN Returned(FieldValue(NonBlankVFields(youtube_url.query)[1]))
            ELSE LaterRules(youtube_url)

\* A short link with an embed segment and two `v` values: rule (1) wins.
C8_Witness ==
    /\ pc = "extracted"
    /\ youtube_url.netloc = "youtu.be"
    /\ HasSegment(youtube_url.path, "embed")
    /\ Len(NonBlankVFields(youtube_url.query)) = 2
    /\ extract_result.raised = "none"
    /\ extract_result.value # FinalSegment(youtube_url.path)

---------------------------------------------------------------------------
(* Properties of the segmenter (SegSpec) *)

RECURSIVE Concat(_)
Concat(seqs) ==
    IF seqs = <<>> THEN <<>> ELSE Head(seqs) \o Concat(Tail(seqs))

RemoveWhitespace(s) ==
    SelectSeq(s, LAMBDA c : c \notin WhitespaceChars)

SanitizedCueTexts ==
    [j \in 1..Len(transcript) |-> sanitize_text(transcript[j].text)]

InTimelineOrder ==
    \A j \in 1..(Len(transcript) - 1) :
        transcript[j].start <= transcript[j + 1].start

StrictTimelineOrder ==
    \A j \in 1..(Len(transcript) - 1) :
        transcript[j].start < transcript[j + 1].start

\* The segment index the accumulator had before cue j was scanned.
SegBefore(j) == IF j = 1 THEN 0 ELSE cueSeg[j - 1]

\* Cue j is the first text of its segment.
StartsNewSegment(j) == j = 1 \/ cueSeg[j] = SegBefore(j) + 1

\* Cue j was scanned with start/60.0 equal to the break point of that moment.
AtBreakPoint(j) ==
    transcript[j].start
        = SecondsPerMinute * summary_scope * (SegBefore(j) + 1)

\* Cue j's start/60.0 is a multiple of summary_scope.
AtMultipleOfScope(j) ==
    transcript[j].start % (SecondsPerMinute * summary_scope) = 0

\* C1, as stated: when get_transcript returns, the concatenation of the
\* cues' sanitized texts equals the concatenation of the segments' texts.
C1_ConcatEqual ==
    pc = "segmented" => Concat(SanitizedCueTexts) = Concat(segments)

\* C1, amended: when get_transcript returns, the two concatenations are
\* equal once whitespace is removed: no cue text is dropped, duplicated or
\* reordered; the segments differ from the cue texts only by the joining
\* spaces and the trimming.
C1_ConcatEqualUpToWhitespace ==
    pc = "segmented" =>
        RemoveWhitespace(Concat(SanitizedCueTexts))
            = RemoveWhitespace(Concat(segments))

\* A return with three lettered cues, two of them in one segment.
C1_Witness ==
    /\ pc = "segmented"
    /\ Len(transcript) = 3
    /\ Len(segments) = 2
    /\ \A j \in 1..3 : sanitize_text(transcript[j].text) # <<>>
    /\ transcript[1].text # transcript[2].text
    /\ transcript[2].text # transcript[3].text

CeilDiv(a, b) == (a + b - 1) \div b

VideoDurationSeconds ==
    IF transcript = <<>> THEN 0
    ELSE CHOOSE m \in { c.start + c.duration : c \in Cues } :
            /\ \E j \in 1..Len(transcript) :
                   m = transcript[j].start + transcript[j].duration
            /\ \A j \in 1..Len(transcript) :
                   m >= transcript[j].start + transcript[j].duration

\* C2: for cues in timeline order, get_transcript returns
\* ceil(video_duration_minutes / summary_scope) segments.
C2_SegmentCount ==
    (pc = "segmented" /\ InTimelineOrder) =>
        Len(segments)
            = CeilDiv(VideoDurationSeconds, SecondsPerMinute * summary_scope)

C10_CueNotBeforeTimestamp ==
    InTimelineOrder =>
        \A j \in 1..Len(cueSeg) :
            transcript[j].start
                >= SecondsPerMinute * cueSeg[j] * summary_scope

\* A return whose third segment (index 2) holds a cue.
C10_Witness ==
    /\ pc = "segmented"
    /\ InTimelineOrder
    /\ Len(segments) = 3
    /\ \E j \in 1..Len(cueSeg) : cueSeg[j] = 2

---------------------------------------------------------------------------
(* Properties of the summarizer and the handler (Spec) *)

CompletionLog ==
    SelectSeq(calls, LAMBDA c : c.service = "completion")

Unavailable == {"TranscriptsDisabled", "NoTranscriptFound"}

UnavailableSentence(kind, id) ==
    IF kind = "TranscriptsDisabled" THEN DisabledSentence(id)
    ELSE NotFoundSentence(id)

\* C3: when summarize_video_segments returns, its list is as long as the
\* segment list, entry i is made from segment i (its request carried the
\* segment, its text is that call's sanitized completion), is labelled
\* i * summary_scope minutes and links to second i * summary_scope * 60.
C3_SummariesMatchSegments ==
    summaries.returned =>
        /\ Len(summaries.value) = Len(segments)
        /\ Len(CompletionLog) = Len(segments)
        /\ \A i \in 0..(Len(segments) - 1) :
              LET entry == summaries.value[i + 1]
                  call  == CompletionLog[i + 1]
              IN  /\ call.request = sanitize_text(segments[i + 1])
                  /\ entry.text = sanitize_text(call.content)
                  /\ entry.label = i * min_chunk
                  /\ entry.href.path = video_id
                  /\ entry.href.t = i * min_chunk * 60

\* A returned list of two entries, two minutes apart, whose completions
\* differ.
C3_Witness ==
    /\ summaries.returned
    /\ Len(summaries.value) = 2
    /\ summaries.value[1].text # summaries.value[2].text
    /\ min_chunk = 2

\* C5: a completion fault on any segment aborts the batch: no summaries
\* list is returned, no result page is rendered, the generic message is
\* flashed and the user is redirected to the form.
C5_FaultAbortsBatch ==
    (\E k \in 1..Len(calls) : calls[k].answer = "OpenAIError") =>
        /\ pc = "done"
        /\ summaries = NotReturned
        /\ response = RedirectToForm
        /\ flashed = <<GenericMessage>>

\* A fault on the third segment, after two summaries were made.
C5_Witness ==
    /\ Len(calls) = 4
    /\ calls[4].answer = "OpenAIError"
    /\ Len(segmented_summaries) = 2

\* C6: a URL with no extractable ID and a non-positive chunk size are both
\* answered with the specific message, not the generic one, before any
\* external call, and the user is redirected to the form.
C6_ValidationFaultsSpecific ==
    (/\ pc = "done"
     /\ \/ extract_result.raised = "ValueError"
        \/ /\ ParseInt(minChunk).raised = "none"
           /\ ParseInt(minChunk).value <= 0) =>
        /\ flashed = <<BadRequestMessage>>
        /\ response = RedirectToForm
        /\ calls = <<>>

C9_CallOrder ==
    /\ pc = "request" => calls = <<>>
    /\ \A k \in 1..Len(calls) :
          /\ calls[k].service = "captions" =>
                /\ k = 1
                /\ extract_result.raised = "none"
                /\ extract_result.value # <<>>
                /\ ParseInt(minChunk).raised = "none"
                /\ ParseInt(minChunk).value > 0
          /\ calls[k].service = "completion" =>
                /\ k >= 2
                /\ calls[1].service = "captions"
                /\ calls[1].answer # "Error"
                /\ calls[k].index = k - 2
          /\ calls[k].answer = "OpenAIError" => k = Len(calls)
    /\ response.kind = "render" =>
          /\ calls # <<>>
          /\ Len(calls) = Len(segments) + 1
          /\ \A k \in 2..Len(calls) : calls[k].answer = "ok"

\* A page rendered after a fetch and three completion calls.
C9_Witness ==
    /\ response.kind = "render"
    /\ Len(calls) = 4
    /\ calls[4].index = 2

=============================================================================
